---- MODULE Spec2Model ----
(***************************************************************************)
(* Model of the procedural layout generator of the 3D city backend         *)
(* (backend/app/services/project_generator.py).                            *)
(*                                                                         *)
(* Numbers.  Python floats are modelled in fixed point:                    *)
(*   - angles and the values of math.cos / math.sin are integers scaled by *)
(*     SCALE (an angle a stands for a / SCALE radians);                    *)
(*   - coordinates and distances are integers in thousandths of a unit     *)
(*     (MILLI per unit), so round(d, 2) is rounding to a multiple of 10.   *)
(* Every product stays below 2^31.                                         *)
(***************************************************************************)
EXTENDS Integers, Sequences, FiniteSets, TLC

VARIABLES
    catalog,      \* the two module-level template dicts, as live objects
    model_type,   \* argument of the call
    sectors,      \* argument of the call
    pc,           \* "idle" before any call, "call" on entry, "done" after
    result,       \* what the call produced: a returned pair or a raised error
    ncalls,       \* calls of generate_project_layout completed in this process
    earlier,      \* one of the calls completed before the latest one, or NoCall
    args,         \* arguments of a direct call of one of the module's helpers
    ret,          \* what that call returned
    projects,     \* the stored Project documents, by id
    next_id,      \* the id the next inserted Project gets
    response,     \* the latest request to the projects router and its answer
    frames        \* the local variables of each concurrent invocation

vars == <<catalog, model_type, sectors, pc, result, ncalls, earlier, args, ret,
          projects, next_id, response, frames>>

\* the variables of the projects router
apiVars == <<projects, next_id, response>>

\* the variables of the direct calls of generate_radial_positions and
\* calculate_distance
helperVars == <<args, ret>>

-----------------------------------------------------------------------------
(* Bounds of the model *)

MaxLen == 3       \* longest requested sector list
MaxCalls == 3     \* calls made by one process in SpecRepeat
MaxRepeatLen == 2 \* longest requested sector list in SpecRepeat

-----------------------------------------------------------------------------
(* app/models/project.py: ModelType *)

PLANNING == "planning"
CORPORATE == "corporate"
ModelType == {PLANNING, CORPORATE}

-----------------------------------------------------------------------------
(* The template catalogs *)

Building(n, t, c, d) == [name |-> n, type |-> t, color |-> c, description |-> d]

CITY_ZONE_TEMPLATES ==
    [government |-> [buildings |-> <<
        Building("City Hall", "Building", "#3b82f6", "The central administrative building of the city."),
        Building("Police Headquarters", "Building", "#1d4ed8", "Main police station serving the city.")>>],
     healthcare |-> [buildings |-> <<
        Building("Central Hospital", "Hospital", "#ef4444", "Major medical facility with emergency and specialist care."),
        Building("Medical Center", "Hospital", "#ef4444", "Modern healthcare facility with outpatient services.")>>],
     education |-> [buildings |-> <<
        Building("Public Library", "Library", "#84cc16", "Main library with extensive collection and study areas."),
        Building("High School", "School", "#fb923c", "Public high school with modern facilities.")>>],
     commercial |-> [buildings |-> <<
        Building("Shopping Mall", "Shop", "#a78bfa", "Large retail complex with diverse stores."),
        Building("Office Tower", "Building", "#60a5fa", "Modern office building housing various businesses.")>>],
     residential |-> [buildings |-> <<
        Building("Apartment Complex", "Building", "#8b5cf6", "Modern residential complex with amenities."),
        Building("Hotel District", "Hotel", "#06b6d4", "Upscale hotels and accommodations.")>>],
     green |-> [buildings |-> <<
        Building("Central Park", "Park", "#4ade80", "Large urban park with recreational facilities."),
        Building("Botanical Gardens", "Park", "#4ade80", "Beautiful gardens with diverse plant species.")>>],
     transportation |-> [buildings |-> <<
        Building("Central Station", "Building", "#64748b", "Main transportation hub connecting the city."),
        Building("Bus Terminal", "Building", "#64748b", "Central bus station serving the city.")>>]]

CORPORATE_ZONE_TEMPLATES ==
    [admin |-> [buildings |-> <<
        Building("Main Office Building", "Building", "#3b82f6", "Corporate headquarters with executive offices."),
        Building("HR & Finance Block", "Building", "#1d4ed8", "Administrative offices for HR and Finance departments.")>>],
     research |-> [buildings |-> <<
        Building("Research Lab A", "Building", "#ef4444", "Advanced research and development facility."),
        Building("Innovation Center", "Building", "#ef4444", "Collaborative space for innovation and prototyping.")>>],
     conference |-> [buildings |-> <<
        Building("Main Conference Hall", "Building", "#84cc16", "Large conference facility for corporate events."),
        Building("Training Center", "Building", "#fb923c", "Employee training and development center.")>>],
     cafeteria |-> [buildings |-> <<
        Building("Main Cafeteria", "Restaurant", "#a78bfa", "Central dining facility for employees."),
        Building("Coffee Shop", "Cafe", "#60a5fa", "Casual coffee shop and break area.")>>],
     clinic |-> [buildings |-> <<
        Building("Medical Center", "Hospital", "#8b5cf6", "On-site medical facility for employees.")>>],
     parking |-> [buildings |-> <<
        Building("Main Parking Structure", "Building", "#4ade80", "Multi-level employee parking facility."),
        Building("Visitor Parking", "Building", "#4ade80", "Dedicated visitor parking area.")>>],
     security |-> [buildings |-> <<
        Building("Security Command Center", "Building", "#64748b", "Main security operations center."),
        Building("Entry Gate Complex", "Building", "#64748b", "Main entrance security checkpoint.")>>]]

-----------------------------------------------------------------------------
(* Fixed-point arithmetic standing for Python's float and math module *)

SCALE == 40000            \* one radian, and the value 1.0 of cos and sin
MILLI == 1000             \* one unit of length
PI == 125664              \* math.pi * SCALE
HALF_PI == PI \div 2
QUARTER_PI == PI \div 4

\* a / b rounded to the nearest integer (b > 0)
RDiv(a, b) == (a + b \div 2) \div b

\* cos on [0, pi/4]: 1 - x^2/2! + x^4/4! - x^6/6! + x^8/8!
TaylorCos(x) ==
    LET x2 == RDiv(x * x, SCALE)
        t1 == RDiv(SCALE * x2, SCALE * 2)
        t2 == RDiv(t1 * x2, SCALE * 12)
        t3 == RDiv(t2 * x2, SCALE * 30)
        t4 == RDiv(t3 * x2, SCALE * 56)
    IN  SCALE - t1 + t2 - t3 + t4

\* sin on [0, pi/4]: x - x^3/3! + x^5/5! - x^7/7! + x^9/9!
TaylorSin(x) ==
    LET x2 == RDiv(x * x, SCALE)
        t1 == RDiv(x * x2, SCALE * 6)
        t2 == RDiv(t1 * x2, SCALE * 20)
        t3 == RDiv(t2 * x2, SCALE * 42)
        t4 == RDiv(t3 * x2, SCALE * 72)
    IN  x - t1 + t2 - t3 + t4

\* cos and sin on [0, pi/2]
CosQ(r) == IF r <= QUARTER_PI THEN TaylorCos(r) ELSE TaylorSin(HALF_PI - r)
SinQ(r) == IF r <= QUARTER_PI THEN TaylorSin(r) ELSE TaylorCos(HALF_PI - r)

\* math.cos(a), math.sin(a) for an angle a >= 0
Cos(a) ==
    LET r == a % (2 * PI)
        h == IF r > PI THEN 2 * PI - r ELSE r
    IN  IF h > HALF_PI THEN 0 - CosQ(PI - h) ELSE CosQ(h)

Sin(a) ==
    LET r == a % (2 * PI)
        h == IF r > PI THEN r - PI ELSE r
        s == IF h > HALF_PI THEN SinQ(PI - h) ELSE SinQ(h)
    IN  IF r > PI THEN 0 - s ELSE s

\* length * (value of cos or sin): a length in thousandths
Times(len, trig) == RDiv(len * trig, SCALE)

RECURSIVE SqrtSearch(_, _, _)
SqrtSearch(n, lo, hi) ==
    IF lo >= hi THEN lo
    ELSE LET mid == (lo + hi + 1) \div 2
         IN  IF mid * mid <= n THEN SqrtSearch(n, mid, hi)
                               ELSE SqrtSearch(n, lo, mid - 1)

\* math.sqrt(n), to the nearest integer
Sqrt(n) ==
    LET r == SqrtSearch(n, 0, 46340)
    IN  IF n - r * r > r THEN r + 1 ELSE r

\* round(d, 2) of a length in thousandths
Round2(d) == RDiv(d, 10) * 10

-----------------------------------------------------------------------------
(* app/models/location.py, app/models/road.py *)

LocationPosition(x, y, z) == [x |-> x, y |-> y, z |-> z]

LocationEmbedded(id, name, type, position, description, color, zone) ==
    [id |-> id, name |-> name, type |-> type, position |-> position,
     description |-> description, color |-> color, zone |-> zone]

RoadEmbedded(id, from_location, to_location, distance, type) ==
    [id |-> id, from_location |-> from_location, to_location |-> to_location,
     distance |-> distance, type |-> type]

-----------------------------------------------------------------------------
(* app/services/project_generator.py *)

\* the distance on the ground plane, dy left out
calculate_distance_2d(pos1, pos2) ==
    LET dx == pos2.x - pos1.x
        dz == pos2.z - pos1.z
    IN  Sqrt(dx * dx + dz * dz)

\* Euclidean distance between two positions
calculate_distance(pos1, pos2) ==
    LET dx == pos2.x - pos1.x
        dy == pos2.y - pos1.y
        dz == pos2.z - pos1.z
    IN  Sqrt(dx * dx + dy * dy + dz * dz)

\* the general formula without the branch for a single zone
generate_radial_positions_no_center(num_zones, base_radius) ==
    IF num_zones = 0 THEN << >>
    ELSE LET angle_step == (2 * PI) \div num_zones
         IN  [k \in 1..num_zones |->
                <<Times(base_radius, Cos((k - 1) * angle_step)),
                  Times(base_radius, Sin((k - 1) * angle_step))>>]

\* the first center once more at the end: range(num_zones + 1)
generate_radial_positions_closed(num_zones, base_radius) ==
    IF num_zones = 0 THEN << >>
    ELSE IF num_zones = 1 THEN << <<0, 0>> >>
    ELSE LET angle_step == (2 * PI) \div num_zones
         IN  [k \in 1..(num_zones + 1) |->
                <<Times(base_radius, Cos((k - 1) * angle_step)),
                  Times(base_radius, Sin((k - 1) * angle_step))>>]

\* half a turn shared out: angle_step = math.pi / num_zones
generate_radial_positions_half_turn(num_zones, base_radius) ==
    IF num_zones = 0 THEN << >>
    ELSE IF num_zones = 1 THEN << <<0, 0>> >>
    ELSE LET angle_step == PI \div num_zones
         IN  [k \in 1..num_zones |->
                <<Times(base_radius, Cos((k - 1) * angle_step)),
                  Times(base_radius, Sin((k - 1) * angle_step))>>]

\* (x, z) of each zone center, around (0, 0); base_radius in thousandths
generate_radial_positions(num_zones, base_radius) ==
    IF num_zones = 0 THEN << >>
    ELSE IF num_zones = 1 THEN << <<0, 0>> >>
    ELSE LET angle_step == (2 * PI) \div num_zones
         IN  [k \in 1..num_zones |->
                LET i == k - 1
                    angle == i * angle_step
                IN  <<Times(base_radius, Cos(angle)), Times(base_radius, Sin(angle))>>]

BASE_RADIUS == 20 * MILLI
OFFSET_DISTANCE == 3 * MILLI

\* the city catalog whatever the model type
select_templates_always_city(mt) == catalog.city

\* templates = CITY_ZONE_TEMPLATES if model_type == PLANNING else CORPORATE_ZONE_TEMPLATES
select_templates(mt) ==
    IF mt = PLANNING THEN catalog.city ELSE catalog.corporate

RECURSIVE valid_sectors_until_unknown(_, _)
\* stops at the first unknown name instead of skipping it
valid_sectors_until_unknown(templates, secs) ==
    IF secs = << >> \/ Head(secs) \notin DOMAIN templates THEN << >>
    ELSE <<Head(secs)>> \o valid_sectors_until_unknown(templates, Tail(secs))

RECURSIVE valid_sectors_distinct(_, _)
\* keeps the first occurrence of each valid name only
valid_sectors_distinct(templates, secs) ==
    IF secs = << >> THEN << >>
    ELSE LET front == SubSeq(secs, 1, Len(secs) - 1)
             last == secs[Len(secs)]
             kept == valid_sectors_distinct(templates, front)
         IN  IF last \in DOMAIN templates /\ \A i \in 1..Len(front) : front[i] # last
             THEN Append(kept, last)
             ELSE kept

\* valid_sectors = [s for s in sectors if s in templates]
valid_sectors(templates, secs) ==
    SelectSeq(secs, LAMBDA s : s \in DOMAIN templates)

\* an id fresh in every call, as str(uuid.uuid4()) would give
location_id_uuid(sector, building_idx) ==
    "uuid" \o ToString(ncalls) \o "_" \o sector \o "_" \o ToString(building_idx + 1)

\* the ordinal of enumerate() used as it comes, counted from 0
location_id_zero_based(sector, building_idx) ==
    sector \o "_" \o ToString(building_idx)

\* the ordinal alone, without the sector name
location_id_ordinal_only(sector, building_idx) ==
    "loc_" \o ToString(building_idx + 1)

\* location_id = f"{sector}_{building_idx + 1}"
location_id(sector, building_idx) ==
    sector \o "_" \o ToString(building_idx + 1)

\* every building of a zone on the zone center, without the offset
make_location_no_offset(sector, center, buildings, building_idx) ==
    LET building_template == buildings[building_idx + 1]
    IN  [id |-> sector \o "_" \o ToString(building_idx + 1),
         name |-> building_template.name,
         type |-> building_template.type,
         position |-> [x |-> center[1], y |-> 0, z |-> center[2]],
         description |-> building_template.description,
         color |-> building_template.color,
         zone |-> sector]

\* the offset applied whatever the number of buildings of the zone
make_location_offset_always(sector, center, buildings, building_idx) ==
    LET building_template == buildings[building_idx + 1]
        offset_angle == (building_idx * PI) \div 4
    IN  [id |-> sector \o "_" \o ToString(building_idx + 1),
         name |-> building_template.name,
         type |-> building_template.type,
         position |-> [x |-> center[1] + Times(OFFSET_DISTANCE, Cos(offset_angle)),
                       y |-> 0,
                       z |-> center[2] + Times(OFFSET_DISTANCE, Sin(offset_angle))],
         description |-> building_template.description,
         color |-> building_template.color,
         zone |-> sector]

\* the body of the inner loop: the location of one building template
make_location(sector, center, buildings, building_idx) ==
    LET building_template == buildings[building_idx + 1]
        offset_angle == IF Len(buildings) > 1 THEN (building_idx * PI) \div 4 ELSE 0
        offset_distance == IF Len(buildings) > 1 THEN OFFSET_DISTANCE ELSE 0
        x == center[1] + Times(offset_distance, Cos(offset_angle))
        z == center[2] + Times(offset_distance, Sin(offset_angle))
    IN  LocationEmbedded(location_id(sector, building_idx),
                         building_template.name,
                         building_template.type,
                         LocationPosition(x, 0, z),
                         building_template.description,
                         building_template.color,
                         sector)

\* the locations of the sectors valid[zone_idx..], in generation order
\* (zone_idx is 1-based here, 0-based in the source)
RECURSIVE generate_locations(_, _, _, _)
generate_locations(templates, valid, zone_positions, zone_idx) ==
    IF zone_idx > Len(valid) THEN << >>
    ELSE LET sector == valid[zone_idx]
             buildings == templates[sector].buildings
             here == [b \in 1..Len(buildings) |->
                        make_location(sector, zone_positions[zone_idx], buildings, b - 1)]
         IN  here \o generate_locations(templates, valid, zone_positions, zone_idx + 1)

\* the keys of a dict filled by "if loc.zone not in d: d[loc.zone] = ..." while
\* iterating locs, in insertion order
RECURSIVE zone_keys(_, _)
zone_keys(locs, seen) ==
    IF locs = << >> THEN << >>
    ELSE IF Head(locs).zone \in seen THEN zone_keys(Tail(locs), seen)
    ELSE <<Head(locs).zone>> \o zone_keys(Tail(locs), seen \cup {Head(locs).zone})

\* the last location of the zone: the dict entry overwritten on every location
zone_representative_last(locs, zone) ==
    locs[CHOOSE i \in 1..Len(locs) :
            /\ locs[i].zone = zone
            /\ \A j \in (i + 1)..Len(locs) : locs[j].zone # zone]

\* zone_representatives[zone]: the first location of the zone
zone_representative(locs, zone) ==
    locs[CHOOSE i \in 1..Len(locs) :
            /\ locs[i].zone = zone
            /\ \A j \in 1..(i - 1) : locs[j].zone # zone]

\* zones_dict[zone]: the locations of the zone, in list order
zone_locations_of(locs, zone) ==
    SelectSeq(locs, LAMBDA loc : loc.zone = zone)

\* to_location taken from the representative's name instead of its id
main_road_to_name(hub_location, representative) ==
    [id |-> "r_main_" \o hub_location.id \o "_" \o representative.id,
     from_location |-> hub_location.id,
     to_location |-> representative.name,
     distance |-> Round2(calculate_distance(hub_location.position, representative.position)),
     type |-> "main"]

main_road(hub_location, representative) ==
    RoadEmbedded("r_main_" \o hub_location.id \o "_" \o representative.id,
                 hub_location.id,
                 representative.id,
                 Round2(calculate_distance(hub_location.position, representative.position)),
                 "main")

\* a main road to every zone representative, the hub itself included
main_roads_hub_included(locs) ==
    LET hub_location == locs[1]
        zones == zone_keys(locs, {})
    IN  [k \in 1..Len(zones) |-> main_road(hub_location, zone_representative(locs, zones[k]))]

\* hub to the first building of each other zone
main_roads(locs) ==
    LET hub_location == locs[1]
        zones == SelectSeq(zone_keys(locs, {}),
                           LAMBDA zone : zone_representative(locs, zone).id # hub_location.id)
    IN  [k \in 1..Len(zones) |-> main_road(hub_location, zone_representative(locs, zones[k]))]

\* the two ends of the road exchanged
secondary_road_reversed(loc1, loc2) ==
    RoadEmbedded("r_sec_" \o loc1.id \o "_" \o loc2.id,
                 loc2.id,
                 loc1.id,
                 Round2(calculate_distance(loc1.position, loc2.position)),
                 "secondary")

\* a road between two consecutive locations of a zone
secondary_road(loc1, loc2) ==
    RoadEmbedded("r_sec_" \o loc1.id \o "_" \o loc2.id,
                 loc1.id,
                 loc2.id,
                 Round2(calculate_distance(loc1.position, loc2.position)),
                 "secondary")

\* the chain one pair short: range(len(zone_locations) - 2)
zone_chain_short(zone_locations) ==
    IF Len(zone_locations) > 1
    THEN [i \in 1..(Len(zone_locations) - 2) |->
            secondary_road(zone_locations[i], zone_locations[i + 1])]
    ELSE << >>

\* consecutive buildings of one zone
zone_chain(zone_locations) ==
    IF Len(zone_locations) > 1
    THEN [i \in 1..(Len(zone_locations) - 1) |->
            secondary_road(zone_locations[i], zone_locations[i + 1])]
    ELSE << >>

RECURSIVE secondary_roads(_, _)
secondary_roads(locs, zones) ==
    IF zones = << >> THEN << >>
    ELSE zone_chain(zone_locations_of(locs, Head(zones)))
            \o secondary_roads(locs, Tail(zones))

generate_roads(locs) ==
    IF locs # << >>
    THEN main_roads(locs) \o secondary_roads(locs, zone_keys(locs, {}))
    ELSE << >>

Returned(locs, rds) ==
    [outcome |-> "return", error |-> "", message |-> "", model_type |-> "",
     locations |-> locs, roads |-> rds]

Raised(error, message, mt) ==
    [outcome |-> "raise", error |-> error, message |-> message, model_type |-> mt,
     locations |-> << >>, roads |-> << >>]

NoResult ==
    [outcome |-> "none", error |-> "", message |-> "", model_type |-> "",
     locations |-> << >>, roads |-> << >>]

generate_project_layout(mt, secs) ==
    LET templates == select_templates(mt)
        valid == valid_sectors(templates, secs)
    IN  IF valid = << >>
        THEN Raised("ValueError", "No valid sectors provided for " \o mt \o " model", mt)
        ELSE LET zone_positions == generate_radial_positions(Len(valid), BASE_RADIUS)
                 locs == generate_locations(templates, valid, zone_positions, 1)
             IN  Returned(locs, generate_roads(locs))

-----------------------------------------------------------------------------
(* The requests the model draws *)

\* sector names of both catalogs and a name of neither
SectorNames ==
    {"government", "healthcare", "education", "admin", "research", "clinic", "bogus"}

RECURSIVE SeqsUpTo(_, _)
SeqsUpTo(S, n) ==
    IF n = 0 THEN {<< >>}
    ELSE LET shorter == SeqsUpTo(S, n - 1)
         IN  shorter \cup {Append(q, e) : q \in {p \in shorter : Len(p) = n - 1}, e \in S}

SectorLists == SeqsUpTo(SectorNames, MaxLen)

-----------------------------------------------------------------------------
(* One call of generate_project_layout on any model type and sector list *)

NoCall == [at |-> 0, model_type |-> "", sectors |-> << >>, result |-> NoResult]

\* no helper is called directly
NoArgs == [fn |-> ""]
NoRet == << >>
NoHelperCall == args = NoArgs /\ ret = NoRet

\* no request has reached the projects router
NoResponse == [op |-> "", status |-> 0]
NoRequest == projects = << >> /\ next_id = 1 /\ response = NoResponse

\* no concurrent invocation is under way
NoFrames == << >>
NoInvocation == frames = NoFrames

Init ==
    /\ catalog = [city |-> CITY_ZONE_TEMPLATES, corporate |-> CORPORATE_ZONE_TEMPLATES]
    /\ model_type \in ModelType
    /\ sectors \in SectorLists
    /\ pc = "call"
    /\ result = NoResult
    /\ ncalls = 0
    /\ earlier = NoCall
    /\ NoHelperCall
    /\ NoRequest
    /\ NoInvocation

Generate ==
    /\ pc = "call"
    /\ result' = generate_project_layout(model_type, sectors)
    /\ pc' = "done"
    /\ ncalls' = ncalls + 1
    /\ UNCHANGED <<catalog, model_type, sectors, earlier, helperVars, apiVars, frames>>

Next == Generate

Spec == Init /\ [][Next]_vars

-----------------------------------------------------------------------------
(* A process that calls generate_project_layout again and again, on any    *)
(* arguments, and keeps one of its earlier calls for comparison            *)

RepeatNames == {"government", "clinic"}
RepeatLists == SeqsUpTo(RepeatNames, MaxRepeatLen)

InitRepeat ==
    /\ catalog = [city |-> CITY_ZONE_TEMPLATES, corporate |-> CORPORATE_ZONE_TEMPLATES]
    /\ model_type = ""
    /\ sectors = << >>
    /\ pc = "idle"
    /\ result = NoResult
    /\ ncalls = 0
    /\ earlier = NoCall
    /\ NoHelperCall
    /\ NoRequest
    /\ NoInvocation

\* the latest completed call, as a record
LatestCall ==
    [at |-> ncalls, model_type |-> model_type, sectors |-> sectors, result |-> result]

Call(mt, secs) ==
    /\ ncalls < MaxCalls
    /\ model_type' = mt
    /\ sectors' = secs
    /\ result' = generate_project_layout(mt, secs)
    /\ pc' = "done"
    /\ ncalls' = ncalls + 1
    /\ earlier' \in {earlier} \cup (IF pc = "done" THEN {LatestCall} ELSE {})
    /\ UNCHANGED <<catalog, helperVars, apiVars, frames>>

NextRepeat == \E mt \in ModelType, secs \in RepeatLists : Call(mt, secs)

SpecRepeat == InitRepeat /\ [][NextRepeat]_vars

-----------------------------------------------------------------------------
(* One direct call of generate_radial_positions, as the unit tests make    *)

MaxZones == 12    \* largest num_zones

\* base_radius values, in units; 20 is the default of the signature
Radii == {1, 5, 10, 20, 25, 30}

NoLayoutCall ==
    /\ catalog = [city |-> CITY_ZONE_TEMPLATES, corporate |-> CORPORATE_ZONE_TEMPLATES]
    /\ model_type = ""
    /\ sectors = << >>
    /\ result = NoResult
    /\ ncalls = 0
    /\ earlier = NoCall
    /\ NoRequest
    /\ NoInvocation

InitRadial ==
    /\ NoLayoutCall
    /\ pc = "call"
    /\ args \in {[fn |-> "generate_radial_positions", num_zones |-> n, base_radius |-> r * MILLI] :
                    n \in 0..MaxZones, r \in Radii}
    /\ ret = NoRet

RadialPositions ==
    /\ pc = "call"
    /\ args.fn = "generate_radial_positions"
    /\ ret' = generate_radial_positions(args.num_zones, args.base_radius)
    /\ pc' = "done"
    /\ UNCHANGED <<catalog, model_type, sectors, result, ncalls, earlier, args, apiVars, frames>>

NextRadial == RadialPositions

SpecRadial == InitRadial /\ [][NextRadial]_vars

-----------------------------------------------------------------------------
(* One direct call of calculate_distance on two positions, and the call    *)
(* with the two positions exchanged                                        *)

\* coordinates, in units
Coords == {-3, 0, 3, 4}

Positions == {LocationPosition(x * MILLI, y * MILLI, z * MILLI) : x, y, z \in Coords}

InitDistance ==
    /\ NoLayoutCall
    /\ pc = "call"
    /\ args \in {[fn |-> "calculate_distance", pos1 |-> p, pos2 |-> q] : p, q \in Positions}
    /\ ret = NoRet

Distance ==
    /\ pc = "call"
    /\ args.fn = "calculate_distance"
    /\ ret' = [distance |-> calculate_distance(args.pos1, args.pos2),
               exchanged |-> calculate_distance(args.pos2, args.pos1)]
    /\ pc' = "done"
    /\ UNCHANGED <<catalog, model_type, sectors, result, ncalls, earlier, args, apiVars, frames>>

NextDistance == Distance

SpecDistance == InitDistance /\ [][NextDistance]_vars

-----------------------------------------------------------------------------
(* Vocabulary of the properties *)

\* the call has returned a (locations, roads) pair
Returns == pc = "done" /\ result.outcome = "return"

\* the catalog that model_type selects, as written in the source
SelectedCatalog ==
    IF model_type = PLANNING THEN CITY_ZONE_TEMPLATES ELSE CORPORATE_ZONE_TEMPLATES

\* positions of the request that hold a key of the selected catalog
ValidEntries == {i \in 1..Len(sectors) : sectors[i] \in DOMAIN SelectedCatalog}

LocationIds == {result.locations[i].id : i \in 1..Len(result.locations)}
Zones == {result.locations[i].zone : i \in 1..Len(result.locations)}

\* positions, in the location list, of the locations of a zone
ZoneIndices(zone) ==
    {i \in 1..Len(result.locations) : result.locations[i].zone = zone}

\* the ids carried by the locations of a zone
ZoneIds(zone) == {result.locations[i].id : i \in ZoneIndices(zone)}

RoadsOfType(t) == SelectSeq(result.roads, LAMBDA r : r.type = t)

Min(S) == CHOOSE m \in S : \A n \in S : m <= n

-----------------------------------------------------------------------------
(* C1: whenever generate_project_layout returns, for any model type and any *)
(* requested list (repeated and unknown names included), no two returned    *)
(* locations have the same id.                                              *)
C1_LocationIdsUnique ==
    Returns =>
        \A i, j \in 1..Len(result.locations) :
            i # j => result.locations[i].id # result.locations[j].id

(* C2: whenever generate_project_layout returns, every returned road, main *)
(* or secondary, has from_location different from to_location.             *)
C2_NoSelfLoops ==
    Returns =>
        \A k \in 1..Len(result.roads) :
            result.roads[k].from_location # result.roads[k].to_location

(* C3: whenever generate_project_layout returns, both ends of every        *)
(* returned road are ids of locations returned by the same call.           *)
C3_RoadEndsAreLocations ==
    Returns =>
        \A k \in 1..Len(result.roads) :
            /\ result.roads[k].from_location \in LocationIds
            /\ result.roads[k].to_location \in LocationIds

\* a call that returned main and secondary roads
C3_Witness ==
    /\ Returns
    /\ \E k \in 1..Len(result.roads) : result.roads[k].type = "main"
    /\ \E k \in 1..Len(result.roads) : result.roads[k].type = "secondary"

(* C4: the call raises ValueError "No valid sectors provided for <model    *)
(* type> model", carrying the model type, exactly when no requested name   *)
(* is a key of the catalog selected by model_type; otherwise it returns a  *)
(* pair and raises nothing.                                                *)
C4_RaisesIffNoValidSector ==
    pc = "done" =>
        IF ValidEntries = {}
        THEN /\ result.outcome = "raise"
             /\ result.error = "ValueError"
             /\ result.message = "No valid sectors provided for " \o model_type \o " model"
             /\ result.model_type = model_type
        ELSE /\ result.outcome = "return"
             /\ result.error = ""

\* a non-empty request whose names are all keys of the other catalog, refused
C4_Witness ==
    /\ pc = "done"
    /\ result.outcome = "raise"
    /\ model_type = CORPORATE
    /\ sectors # << >>
    /\ \A i \in 1..Len(sectors) : sectors[i] \in DOMAIN CITY_ZONE_TEMPLATES

(* C5: when some requested name is valid for the model type, the call      *)
(* returns; the zones of the returned locations are exactly the requested  *)
(* names that are keys of the selected catalog (so no unknown name is a    *)
(* zone); and zones first appear among the locations in the order in which *)
(* they first appear in the request.                                       *)
C5_UnknownNamesDropped ==
    (pc = "done" /\ ValidEntries # {}) =>
        /\ result.outcome = "return"
        /\ Zones = {sectors[i] : i \in ValidEntries}
        /\ \A a, b \in Zones :
              Min(ZoneIndices(a)) < Min(ZoneIndices(b))
                  <=> Min({i \in 1..Len(sectors) : sectors[i] = a})
                        < Min({i \in 1..Len(sectors) : sectors[i] = b})

\* an unknown name ahead of two different valid names
C5_Witness ==
    /\ Returns
    /\ sectors[1] \notin DOMAIN SelectedCatalog
    /\ Cardinality(Zones) = 2

(* C6: whenever the call returns, the number of main roads is the number   *)
(* of distinct zones among the returned locations minus one: each zone     *)
(* other than the hub's zone is the destination of exactly one main road,  *)
(* the hub's zone of none.                                                 *)
C6_MainRoadCount ==
    Returns =>
        LET main == RoadsOfType("main")
            hub == result.locations[1]
            Into(zone) == {k \in 1..Len(main) : main[k].to_location \in ZoneIds(zone)}
        IN  /\ Len(main) = Cardinality(Zones) - 1
            /\ \A zone \in Zones :
                  Cardinality(Into(zone)) = IF zone = hub.zone THEN 0 ELSE 1

\* two zones, the hub's sector requested a second time after the other one
C6_Witness ==
    /\ Returns
    /\ Cardinality(Zones) = 2
    /\ Len(sectors) = 3
    /\ ValidEntries = {1, 2, 3}
    /\ sectors[3] = sectors[1]

(* C7: whenever the call returns, for every zone with k returned locations *)
(* the secondary roads joining locations of the zone are max(0, k - 1) in  *)
(* number and are, in order, the roads from the i-th to the (i+1)-th       *)
(* location of the zone in generation order.                               *)
C7_SecondaryChains ==
    Returns =>
        \A zone \in Zones :
            LET zone_locs == SelectSeq(result.locations, LAMBDA loc : loc.zone = zone)
                k == Len(zone_locs)
                joining == SelectSeq(result.roads,
                              LAMBDA r : /\ r.type = "secondary"
                                         /\ r.from_location \in ZoneIds(zone)
                                         /\ r.to_location \in ZoneIds(zone))
            IN  /\ Len(joining) = IF k > 1 THEN k - 1 ELSE 0
                /\ \A i \in 1..Len(joining) :
                      /\ joining[i].from_location = zone_locs[i].id
                      /\ joining[i].to_location = zone_locs[i + 1].id

\* a zone of four locations beside a zone of one
C7_Witness ==
    /\ Returns
    /\ \E zone \in Zones : Cardinality(ZoneIndices(zone)) = 4
    /\ \E zone \in Zones : Cardinality(ZoneIndices(zone)) = 1

RECURSIVE SumOver(_, _)
SumOver(f, S) ==
    IF S = {} THEN 0
    ELSE LET e == CHOOSE e \in S : TRUE IN f[e] + SumOver(f, S \ {e})

(* C8: when the request has a valid sector, the number of returned         *)
(* locations is the sum, over the valid entries of the request, of the     *)
(* number of building templates of the entry's sector, and there are at    *)
(* least (distinct zones - 1) roads.                                       *)
C8_Counts ==
    (pc = "done" /\ ValidEntries # {}) =>
        /\ result.outcome = "return"
        /\ Len(result.locations) =
              SumOver([i \in ValidEntries |-> Len(SelectedCatalog[sectors[i]].buildings)],
                      ValidEntries)
        /\ Len(result.roads) >= Cardinality(Zones) - 1

\* a one-template sector, a repeated sector and an unknown name together
C8_Witness ==
    /\ Returns
    /\ model_type = CORPORATE
    /\ \E i \in ValidEntries : sectors[i] = "clinic"
    /\ \E i, j \in ValidEntries : i # j /\ sectors[i] = sectors[j]
    /\ ValidEntries # 1..Len(sectors)

(* C10: generate_project_layout(planning, [government, healthcare,         *)
(* education]) returns 6 locations, 2 in each of the three zones, exactly  *)
(* 2 main roads and exactly 3 secondary roads, one inside each zone, and   *)
(* every road has distance > 0.                                            *)
C10_CityScenario ==
    (/\ pc = "done"
     /\ model_type = PLANNING
     /\ sectors = <<"government", "healthcare", "education">>) =>
        /\ result.outcome = "return"
        /\ Len(result.locations) = 6
        /\ Zones = {"government", "healthcare", "education"}
        /\ \A zone \in Zones : Cardinality(ZoneIndices(zone)) = 2
        /\ Len(RoadsOfType("main")) = 2
        /\ Len(RoadsOfType("secondary")) = 3
        /\ \A zone \in Zones :
              Cardinality({k \in 1..Len(result.roads) :
                              /\ result.roads[k].type = "secondary"
                              /\ result.roads[k].from_location \in ZoneIds(zone)
                              /\ result.roads[k].to_location \in ZoneIds(zone)}) = 1
        /\ Len(result.roads) = 5
        /\ \A k \in 1..Len(result.roads) : result.roads[k].distance > 0

C10_Witness ==
    /\ Returns
    /\ model_type = PLANNING
    /\ sectors = <<"government", "healthcare", "education">>

C11_SingleZone ==
    /\ (pc = "done" /\ model_type = CORPORATE /\ sectors = <<"clinic">>) =>
          /\ result.outcome = "return"
          /\ Len(result.locations) = 1
          /\ result.locations[1].position = [x |-> 0, y |-> 0, z |-> 0]
          /\ result.roads = << >>
    /\ (Returns /\ Cardinality(Zones) = 1) => RoadsOfType("main") = << >>

C11_Witness ==
    /\ Returns
    /\ model_type = CORPORATE
    /\ sectors = <<"clinic">>
    /\ Len(result.locations) = 1

(* C20: whenever the call returns, the hub is the first returned location, *)
(* made from the first building template of the first valid requested      *)
(* sector; every main road leaves the hub and ends at the first location,  *)
(* in generation order, of a zone other than the hub's, and its id is      *)
(* r_main_{hub id}_{that location's id}.                                   *)
C20_HubAndMainRoads ==
    Returns =>
        LET hub == result.locations[1]
            first_valid == sectors[Min(ValidEntries)]
            template == SelectedCatalog[first_valid].buildings[1]
            main == RoadsOfType("main")
        IN  /\ hub.zone = first_valid
            /\ hub.id = first_valid \o "_1"
            /\ hub.name = template.name
            /\ hub.type = template.type
            /\ \A k \in 1..Len(main) :
                  /\ main[k].from_location = hub.id
                  /\ \E zone \in Zones \ {hub.zone} :
                        main[k].to_location = result.locations[Min(ZoneIndices(zone))].id
                  /\ main[k].id = "r_main_" \o hub.id \o "_" \o main[k].to_location

\* an unknown name first, then two different valid sectors of two templates
C20_Witness ==
    /\ Returns
    /\ Len(sectors) = 3
    /\ ValidEntries = {2, 3}
    /\ Len(RoadsOfType("main")) = 1
    /\ Len(result.locations) = 4


\* a call of generate_radial_positions has returned
RadialReturned == pc = "done" /\ args.fn = "generate_radial_positions"

(* C17: generate_radial_positions(n, radius) returns exactly n centers for *)
(* every n >= 0: the empty list for n = 0, the single point (0, 0) for     *)
(* n = 1 whatever the radius, n points for n >= 2.                         *)
C17_CenterCount ==
    RadialReturned =>
        /\ Len(ret) = args.num_zones
        /\ \A k \in 1..Len(ret) : Len(ret[k]) = 2
        /\ args.num_zones = 0 => ret = << >>
        /\ args.num_zones = 1 => ret = << <<0, 0>> >>

\* a single zone with a radius that is not the default
C17_Witness ==
    /\ RadialReturned
    /\ args.num_zones = 1
    /\ args.base_radius = 25 * MILLI
    /\ Len(ret) = 1

\* 1e-2 units
TOLERANCE == MILLI \div 100

Near(a, b) == a - b < TOLERANCE /\ b - a < TOLERANCE

\* the point c turned about the origin by the angle of the point c1, both at
\* distance r from the origin
Turned(c, c1, r) ==
    <<RDiv(c[1] * c1[1] - c[2] * c1[2], r), RDiv(c[1] * c1[2] + c[2] * c1[1], r)>>

(* C18: for n >= 2 and every radius, each center returned by               *)
(* generate_radial_positions is at distance radius (within 1e-2) from the  *)
(* origin, and center i is at angle i * 2*pi/n: center 0 is at angle 0,    *)
(* each center is the one before it turned by the same angle, the turn     *)
(* after the last center gives center 0 again, the centers are pairwise    *)
(* apart and go round the origin once, counter-clockwise.                  *)
C18_OnCircleEquallySpaced ==
    (RadialReturned /\ args.num_zones >= 2) =>
        LET n == args.num_zones
            r == args.base_radius
            After(k) == (k % n) + 1
            Squared(k) == ret[k][1] * ret[k][1] + ret[k][2] * ret[k][2]
        IN  /\ \A k \in 1..n :
                  \* (r - tol)^2 < x^2 + z^2 < (r + tol)^2
                  /\ (r - TOLERANCE) * (r - TOLERANCE) < Squared(k)
                  /\ Squared(k) < (r + TOLERANCE) * (r + TOLERANCE)
            /\ Near(ret[1][1], r) /\ Near(ret[1][2], 0)
            /\ \A k \in 1..n :
                  /\ Near(Turned(ret[k], ret[2], r)[1], ret[After(k)][1])
                  /\ Near(Turned(ret[k], ret[2], r)[2], ret[After(k)][2])
            /\ \A j, k \in 1..n :
                  j # k => ~(Near(ret[j][1], ret[k][1]) /\ Near(ret[j][2], ret[k][2]))
            /\ \E h \in 1..n :
                  /\ \A k \in 1..h : ret[k][2] > 0 - TOLERANCE
                  /\ \A k \in (h + 1)..n : ret[k][2] < TOLERANCE

\* seven centers on the circle of radius 25
C18_Witness ==
    /\ RadialReturned
    /\ args.num_zones = 7
    /\ args.base_radius = 25 * MILLI
    /\ Len(ret) = 7

\* a call of calculate_distance has returned
DistanceReturned == pc = "done" /\ args.fn = "calculate_distance"

(* C19: calculate_distance is the 3D Euclidean distance: it is the square  *)
(* root of dx^2 + dy^2 + dz^2 (to the nearest thousandth), it is 0 from a  *)
(* position to itself, it is the same with the two positions exchanged, a  *)
(* difference in y alone gives that difference, and from (0, 0, 0) to      *)
(* (3, 4, 0) it is exactly 5.                                              *)
C19_Euclidean ==
    DistanceReturned =>
        LET p == args.pos1
            q == args.pos2
            d == ret.distance
            dx == q.x - p.x
            dy == q.y - p.y
            dz == q.z - p.z
            squares == dx * dx + dy * dy + dz * dz
        IN  /\ d >= 0
            /\ d > 0 => (2 * d - 1) * (2 * d - 1) <= 4 * squares
            /\ 4 * squares <= (2 * d + 1) * (2 * d + 1)
            /\ p = q => d = 0
            /\ d = ret.exchanged
            /\ (dx = 0 /\ dz = 0) => d = IF dy >= 0 THEN dy ELSE 0 - dy
            /\ (p = LocationPosition(0, 0, 0) /\ q = LocationPosition(3 * MILLI, 4 * MILLI, 0))
                  => d = 5 * MILLI

\* the 3-4-5 triangle of the unit test, with the 4 on the y axis
C19_Witness ==
    /\ DistanceReturned
    /\ args.pos1 = LocationPosition(0, 0, 0)
    /\ args.pos2 = LocationPosition(3 * MILLI, 4 * MILLI, 0)
    /\ ret.distance = 5 * MILLI


-----------------------------------------------------------------------------
(* app/api/routes/projects.py: the projects router, called by two          *)
(* authenticated users.  created_at and updated_at are left out.           *)

MaxProjects == 2      \* Project documents inserted in one run

Users == {"user1", "user2"}

\* bodies of POST /generate: sectors empty, valid for one model type, or
\* valid in part
ApiSectorLists == {<< >>, <<"government">>, <<"clinic", "bogus">>}

ProjectCreates ==
    {[name |-> "Original Name", description |-> "Original Description",
      model_type |-> mt, sectors |-> secs, theme |-> "modern"] :
        mt \in ModelType, secs \in ApiSectorLists}

\* bodies of PUT /{project_id}
ProjectUpdates == {[name |-> "Updated Name", description |-> "Updated Description"]}

\* what may go wrong inside generate_project_layout besides its own
\* ValueError: the interpreter running out of memory
Faults == {"none", "MemoryError"}

\* ProjectCreate: name = Field(min_length=1), sectors = Field(..., min_length=1)
validate_ProjectCreate(data) ==
    /\ data.name # ""
    /\ data.model_type \in ModelType
    /\ Len(data.sectors) >= 1

HTTP_200_OK == 200
HTTP_201_CREATED == 201
HTTP_204_NO_CONTENT == 204
HTTP_400_BAD_REQUEST == 400
HTTP_403_FORBIDDEN == 403
HTTP_404_NOT_FOUND == 404
HTTP_405_METHOD_NOT_ALLOWED == 405
HTTP_422_UNPROCESSABLE_ENTITY == 422
HTTP_500_INTERNAL_SERVER_ERROR == 500

\* loc.position.to_list()
to_list(position) == <<position.x, position.y, position.z>>

LocationResponse(loc) ==
    [id |-> loc.id, name |-> loc.name, type |-> loc.type,
     position |-> to_list(loc.position), description |-> loc.description,
     color |-> loc.color, zone |-> loc.zone]

RoadResponse(road) ==
    [id |-> road.id, from_location |-> road.from_location,
     to_location |-> road.to_location, distance |-> road.distance, type |-> road.type]

\* the document built without roads=roads, leaving the field's default
Project_default_roads(data, user, locs, rds) ==
    [name |-> data.name, description |-> data.description,
     model_type |-> data.model_type, sectors |-> data.sectors, theme |-> data.theme,
     user_id |-> user, locations |-> locs, roads |-> << >>]

\* the Project document of lines 58-67
Project(data, user, locs, rds) ==
    [name |-> data.name, description |-> data.description,
     model_type |-> data.model_type, sectors |-> data.sectors, theme |-> data.theme,
     user_id |-> user, locations |-> locs, roads |-> rds]

ProjectResponse(id, project) ==
    [id |-> id, name |-> project.name, description |-> project.description,
     model_type |-> project.model_type, sectors |-> project.sectors,
     theme |-> project.theme, user_id |-> project.user_id,
     locations |-> [k \in 1..Len(project.locations) |-> LocationResponse(project.locations[k])],
     roads |-> [k \in 1..Len(project.roads) |-> RoadResponse(project.roads[k])]]

HTTPException(status_code, detail) == [status |-> status_code, detail |-> detail]

\* every exception answered as a client error
exception_status_always_400(error) == HTTP_400_BAD_REQUEST

\* except ValueError: 400; except Exception: 500
exception_status(error) ==
    IF error = "ValueError" THEN HTTP_400_BAD_REQUEST ELSE HTTP_500_INTERNAL_SERVER_ERROR

\* the call of generate_project_layout in the try block, with what may go
\* wrong in it
try_generate(data, fault) ==
    IF fault = "none"
    THEN generate_project_layout(data.model_type, data.sectors)
    ELSE Raised(fault, "", data.model_type)

\* POST /generate: the answer, the exception raised by the generation ("" when
\* none or when it did not run) and the Project to insert, if any; layout is
\* the outcome of the try block, used only where the handler comes to it
generate_project(data, current_user, layout) ==
    IF ~validate_ProjectCreate(data)
    THEN [status |-> HTTP_422_UNPROCESSABLE_ENTITY, raised |-> "", insert |-> FALSE,
          body |-> [detail |-> "validation error"]]
    ELSE IF data.sectors = << >>
    THEN [status |-> HTTP_400_BAD_REQUEST, raised |-> "", insert |-> FALSE,
          body |-> [detail |-> "At least one sector must be specified"]]
    ELSE IF layout.outcome = "raise"
    THEN [status |-> exception_status(layout.error), raised |-> layout.error,
          insert |-> FALSE,
          body |-> [detail |-> IF layout.error = "ValueError"
                               THEN layout.message
                               ELSE "Error generating project layout: " \o layout.message]]
    ELSE [status |-> HTTP_201_CREATED, raised |-> "", insert |-> TRUE,
          project |-> Project(data, current_user, layout.locations, layout.roads),
          body |-> ProjectResponse(next_id,
                      Project(data, current_user, layout.locations, layout.roads))]

NoLayoutOrHelperCall == NoLayoutCall /\ pc = "idle" /\ NoHelperCall

InitApi ==
    /\ NoLayoutOrHelperCall
    /\ NoRequest
    /\ NoInvocation

GenerateProject(current_user, data, fault) ==
    /\ next_id <= MaxProjects
    /\ \E layout \in {try_generate(data, fault)} :
       \E answer \in {generate_project(data, current_user, layout)} :
           /\ response' = [op |-> "generate", user |-> current_user,
                           id |-> IF answer.insert THEN next_id ELSE 0,
                           data |-> data, raised |-> answer.raised,
                           status |-> answer.status, body |-> answer.body]
           /\ projects' = IF answer.insert
                          THEN projects @@ (next_id :> answer.project)
                          ELSE projects
           /\ next_id' = IF answer.insert THEN next_id + 1 ELSE next_id
    /\ UNCHANGED <<catalog, model_type, sectors, pc, result, ncalls, earlier, helperVars, frames>>

\* GET /{project_id}
get_project(project_id, current_user) ==
    IF project_id \notin DOMAIN projects
    THEN HTTPException(HTTP_404_NOT_FOUND, "Project not found")
    ELSE IF projects[project_id].user_id # current_user
    THEN HTTPException(HTTP_403_FORBIDDEN, "Not authorized to access this project")
    ELSE [status |-> HTTP_200_OK, body |-> ProjectResponse(project_id, projects[project_id])]

GetProject(current_user, project_id) ==
    /\ LET answer == get_project(project_id, current_user)
       IN  response' = [op |-> "get", user |-> current_user, id |-> project_id,
                        status |-> answer.status,
                        body |-> IF answer.status = HTTP_200_OK THEN answer.body
                                 ELSE [detail |-> answer.detail]]
    /\ UNCHANGED <<catalog, model_type, sectors, pc, result, ncalls, earlier, helperVars,
                   projects, next_id, frames>>

\* the ids for which DELETE /{project_id} by current_user goes through; every
\* other stored id is refused
may_delete_any(project_id, current_user) == TRUE

\* if project.user_id != str(current_user.id): raise 403
may_delete(project_id, current_user) ==
    projects[project_id].user_id = current_user

\* DELETE /{project_id}
delete_project(project_id, current_user) ==
    IF project_id \notin DOMAIN projects
    THEN HTTPException(HTTP_404_NOT_FOUND, "Project not found")
    ELSE IF ~may_delete(project_id, current_user)
    THEN HTTPException(HTTP_403_FORBIDDEN, "Not authorized to delete this project")
    ELSE [status |-> HTTP_204_NO_CONTENT, detail |-> ""]

DeleteProject(current_user, project_id) ==
    /\ LET answer == delete_project(project_id, current_user)
       IN  /\ response' = [op |-> "delete", user |-> current_user, id |-> project_id,
                           status |-> answer.status, body |-> [detail |-> answer.detail]]
           /\ projects' = IF answer.status = HTTP_204_NO_CONTENT
                          THEN [p \in DOMAIN projects \ {project_id} |-> projects[p]]
                          ELSE projects
    /\ UNCHANGED <<catalog, model_type, sectors, pc, result, ncalls, earlier, helperVars,
                   next_id, frames>>

\* PUT /{project_id}: the router registers GET and DELETE on this path and no
\* other method, so the request is answered before any handler runs
PutProject(current_user, project_id, data) ==
    /\ response' = [op |-> "put", user |-> current_user, id |-> project_id, data |-> data,
                    status |-> HTTP_405_METHOD_NOT_ALLOWED,
                    body |-> [detail |-> "Method Not Allowed"]]
    /\ UNCHANGED <<catalog, model_type, sectors, pc, result, ncalls, earlier, helperVars,
                   projects, next_id, frames>>

ProjectIds == 1..MaxProjects

NextApi ==
    \/ \E u \in Users, data \in ProjectCreates, fault \in Faults : GenerateProject(u, data, fault)
    \/ \E u \in Users, p \in ProjectIds : GetProject(u, p)
    \/ \E u \in Users, p \in ProjectIds : DeleteProject(u, p)
    \/ \E u \in Users, p \in ProjectIds, data \in ProjectUpdates : PutProject(u, p, data)

SpecApi == InitApi /\ [][NextApi]_vars


-----------------------------------------------------------------------------
(* Properties of the projects router.                                      *)

Answered(op) == response.op = op

\* no requested sector is a key of the catalog literal of the model type
NoValidSector(mt, secs) ==
    \A k \in 1..Len(secs) :
        secs[k] \notin DOMAIN (IF mt = PLANNING THEN CITY_ZONE_TEMPLATES
                                                ELSE CORPORATE_ZONE_TEMPLATES)

\* C12: in the generate endpoint a generation that fails because no requested
\* sector is valid for the model type (the generator's ValueError) is answered
\* 400, a generation that fails with any other fault is answered 500, and an
\* answer of 400 is only ever given when no requested sector is valid and no
\* other fault occurred.
C12_FaultStatus ==
    Answered("generate") =>
        /\ response.raised = "ValueError" =>
              /\ response.status = 400
              /\ NoValidSector(response.data.model_type, response.data.sectors)
        /\ response.raised \notin {"", "ValueError"} => response.status = 500
        /\ response.status = 400 =>
              /\ NoValidSector(response.data.model_type, response.data.sectors)
              /\ response.raised \in {"", "ValueError"}
        /\ (/\ response.data.sectors # << >>
            /\ NoValidSector(response.data.model_type, response.data.sectors)
            /\ response.raised \in {"", "ValueError"}) => response.status = 400

\* a request for government under the corporate model was answered 400 after
\* the generator raised ValueError
C12_Witness ==
    /\ Answered("generate")
    /\ response.data.model_type = CORPORATE
    /\ response.data.sectors = <<"government">>
    /\ response.raised = "ValueError"
    /\ response.status = 400
    /\ response.body.detail = "No valid sectors provided for corporate model"

\* C13: a request to the generate endpoint whose sectors list is empty is
\* answered 400 and stores no project.
C13_EmptySectors400 ==
    (Answered("generate") /\ response.data.sectors = << >>) =>
        /\ response.status = 400
        /\ response.id = 0

\* C14: a stored project leaves the store only in a step in which its owner's
\* delete is answered 204; an id that left the store never comes back, so a get
\* of it is answered 404; a delete by another user is answered 403 and leaves
\* the store as it was, where the owner's get is answered 200 with the project.
C14_OwnerOnlyDelete ==
    [][/\ \A p \in DOMAIN projects :
              p \notin DOMAIN projects' =>
                  /\ response'.op = "delete"
                  /\ response'.id = p
                  /\ response'.user = projects[p].user_id
                  /\ response'.status = 204
       /\ \A p \in 1..(next_id - 1) :
              p \notin DOMAIN projects => p \notin DOMAIN projects'
       /\ next_id' >= next_id
       /\ \A p \in DOMAIN projects' : p < next_id'
       /\ (response'.op = "delete" /\ response'.id \in DOMAIN projects) =>
              IF response'.user = projects[response'.id].user_id
              THEN response'.status = 204 /\ response'.id \notin DOMAIN projects'
              ELSE /\ response'.status = 403
                   /\ projects' = projects
                   /\ get_project(response'.id, projects[response'.id].user_id).status = 200
       /\ (response'.op = "get" /\ response'.id \notin DOMAIN projects) =>
              response'.status = 404
       /\ (response'.op = "get" /\ response'.id \in DOMAIN projects
              /\ response'.user = projects[response'.id].user_id) =>
              /\ response'.status = 200
              /\ response'.body = ProjectResponse(response'.id, projects[response'.id])
      ]_vars

\* another user's delete of a stored project was answered 403 and the project
\* is still stored
C14_Witness ==
    /\ Answered("delete")
    /\ response.status = 403
    /\ response.id \in DOMAIN projects
    /\ projects[response.id].user_id # response.user

\* C15: a PUT on /api/projects/{project_id} by the owner of a stored project
\* is answered 200 with the project carrying the new name and description.
C15_OwnerUpdate ==
    (/\ Answered("put")
     /\ response.id \in DOMAIN projects
     /\ projects[response.id].user_id = response.user) =>
        /\ response.status = 200
        /\ response.body.name = response.data.name
        /\ response.body.description = response.data.description


-----------------------------------------------------------------------------
(* generate_project_layout invoked concurrently: each invocation has its   *)
(* own frame of local variables and runs the function's statements in      *)
(* order, interleaved with the other invocation's.  The catalogs are the   *)
(* only module-level state the function refers to.                         *)

Invocations == {"request1", "request2"}

ConcurrentLists ==
    {<<"government">>, <<"clinic", "government">>, <<"government", "government">>, <<"bogus">>}

IdleFrame ==
    [pc |-> "idle", model_type |-> "", sectors |-> << >>, valid_sectors |-> << >>,
     zone_positions |-> << >>, zone_idx |-> 0, locations |-> << >>, roads |-> << >>,
     result |-> NoResult, among |-> {}]

InFlight == {j \in DOMAIN frames : frames[j].pc \notin {"idle", "done"}}

InitConcurrent ==
    /\ catalog = [city |-> CITY_ZONE_TEMPLATES, corporate |-> CORPORATE_ZONE_TEMPLATES]
    /\ model_type = "" /\ sectors = << >> /\ pc = "idle" /\ result = NoResult
    /\ ncalls = 0 /\ earlier = NoCall
    /\ NoHelperCall
    /\ NoRequest
    /\ frames = [i \in Invocations |-> IdleFrame]

concurrentUnchanged == <<catalog, model_type, sectors, pc, result, earlier, helperVars, apiVars>>

\* the call: the arguments are bound in a new frame; among records the
\* invocations in flight at any time during this one
Invoke(i, mt, secs) ==
    /\ frames[i].pc \in {"idle", "done"}
    /\ ncalls < MaxCalls
    /\ ncalls' = ncalls + 1
    /\ frames' = [j \in Invocations |->
                    IF j = i
                    THEN [IdleFrame EXCEPT !.pc = "validate", !.model_type = mt,
                                           !.sectors = secs, !.among = InFlight]
                    ELSE IF j \in InFlight
                    THEN [frames[j] EXCEPT !.among = @ \cup {i}]
                    ELSE frames[j]]
    /\ UNCHANGED concurrentUnchanged

\* lines 152-157
ValidateSectors(i) ==
    /\ frames[i].pc = "validate"
    /\ LET valid == valid_sectors(select_templates(frames[i].model_type), frames[i].sectors)
       IN  frames' = [frames EXCEPT ![i] =
               IF valid = << >>
               THEN [@ EXCEPT !.pc = "done",
                              !.result = Raised("ValueError",
                                  "No valid sectors provided for "
                                      \o frames[i].model_type \o " model",
                                  frames[i].model_type)]
               ELSE [@ EXCEPT !.pc = "positions", !.valid_sectors = valid]]
    /\ UNCHANGED <<concurrentUnchanged, ncalls>>

\* the list another invocation is filling, as a list shared by the
\* invocations would be
shared_locations(i) ==
    IF InFlight \ {i} = {} THEN << >>
    ELSE frames[CHOOSE j \in InFlight \ {i} : TRUE].locations

\* locations: List[LocationEmbedded] = []
fresh_locations(i) == << >>

\* lines 160-164
ZonePositions(i) ==
    /\ frames[i].pc = "positions"
    /\ frames' = [frames EXCEPT ![i] =
           [@ EXCEPT !.pc = "locations",
                     !.zone_positions = generate_radial_positions(Len(frames[i].valid_sectors), BASE_RADIUS),
                     !.locations = fresh_locations(i),
                     !.zone_idx = 1]]
    /\ UNCHANGED <<concurrentUnchanged, ncalls>>

\* the inner loop of lines 173-195 for one sector
sector_locations(templates, sector, center) ==
    LET buildings == templates[sector].buildings
    IN  [b \in 1..Len(buildings) |-> make_location(sector, center, buildings, b - 1)]

\* one pass of the loop of line 167
ZoneLocations(i) ==
    /\ frames[i].pc = "locations"
    /\ LET f == frames[i]
           here == sector_locations(select_templates(f.model_type),
                                    f.valid_sectors[f.zone_idx],
                                    f.zone_positions[f.zone_idx])
       IN  frames' = [frames EXCEPT ![i] =
               [@ EXCEPT !.locations = @ \o here,
                         !.zone_idx = @ + 1,
                         !.pc = IF f.zone_idx = Len(f.valid_sectors)
                                THEN "roads" ELSE "locations"]]
    /\ UNCHANGED <<concurrentUnchanged, ncalls>>

\* lines 198-245
Roads(i) ==
    /\ frames[i].pc = "roads"
    /\ frames' = [frames EXCEPT ![i] =
           [@ EXCEPT !.pc = "return", !.roads = generate_roads(frames[i].locations)]]
    /\ UNCHANGED <<concurrentUnchanged, ncalls>>

\* line 247
Return(i) ==
    /\ frames[i].pc = "return"
    /\ frames' = [frames EXCEPT ![i] =
           [@ EXCEPT !.pc = "done", !.result = Returned(frames[i].locations, frames[i].roads)]]
    /\ UNCHANGED <<concurrentUnchanged, ncalls>>

NextConcurrent ==
    \/ \E i \in Invocations, mt \in ModelType, secs \in ConcurrentLists : Invoke(i, mt, secs)
    \/ \E i \in Invocations : ValidateSectors(i)
    \/ \E i \in Invocations : ZonePositions(i)
    \/ \E i \in Invocations : ZoneLocations(i)
    \/ \E i \in Invocations : Roads(i)
    \/ \E i \in Invocations : Return(i)

SpecConcurrent == InitConcurrent /\ [][NextConcurrent]_vars

\* C16: the two template catalogs are what the module defines, whatever was
\* called, and every finished invocation holds the result the function gives
\* for its arguments when run alone, whatever ran in between its steps.
C16_Stateless ==
    /\ catalog = [city |-> CITY_ZONE_TEMPLATES, corporate |-> CORPORATE_ZONE_TEMPLATES]
    /\ \A i \in DOMAIN frames :
          frames[i].pc = "done" =>
              frames[i].result = generate_project_layout(frames[i].model_type, frames[i].sectors)

\* an invocation returned a two-zone layout after running while the other
\* invocation, of other arguments, was in flight and had built locations
C16_Witness ==
    /\ DOMAIN frames = Invocations
    /\ frames["request1"].pc = "done"
    /\ frames["request1"].result.outcome = "return"
    /\ frames["request1"].sectors = <<"clinic", "government">>
    /\ frames["request1"].among = {"request2"}
    /\ frames["request2"].pc = "roads"
    /\ frames["request2"].sectors = <<"government", "government">>
    /\ frames["request2"].among = {"request1"}


-----------------------------------------------------------------------------
(* Attributes and order of the returned locations.                         *)

\* the names of the request that are keys of the selected catalog, in
\* request order
ValidSequence == SelectSeq(sectors, LAMBDA s : s \in DOMAIN SelectedCatalog)

\* the templates of the k-th valid sector, as written in the source
TemplatesOf(k) == SelectedCatalog[ValidSequence[k]].buildings

\* how many locations come before those of the k-th valid sector
RECURSIVE Before(_)
Before(k) == IF k <= 1 THEN 0 ELSE Before(k - 1) + Len(TemplatesOf(k - 1))

(* C21: the locations come in request order of the valid sectors and, in   *)
(* a sector, in template order: the location of the j-th (0-based)         *)
(* template of the k-th valid sector s stands at place Before(k) + j + 1,  *)
(* has id "s_{j+1}", zone s, and the name, type, color and description of  *)
(* that template; there are no other locations.                            *)
C21_OrderAndAttributes ==
    Returns =>
        /\ Len(result.locations) = Before(Len(ValidSequence) + 1)
        /\ \A k \in 1..Len(ValidSequence) :
              \A j \in 0..(Len(TemplatesOf(k)) - 1) :
                  LET loc == result.locations[Before(k) + j + 1]
                      template == TemplatesOf(k)[j + 1]
                  IN  /\ loc.id = ValidSequence[k] \o "_" \o ToString(j + 1)
                      /\ loc.zone = ValidSequence[k]
                      /\ loc.name = template.name
                      /\ loc.type = template.type
                      /\ loc.color = template.color
                      /\ loc.description = template.description

\* a corporate request of research, an unknown name and the one-template
\* clinic: the clinic's only location comes third
C21_Witness ==
    /\ Returns
    /\ model_type = CORPORATE
    /\ sectors = <<"research", "bogus", "clinic">>
    /\ Len(result.locations) = 3
    /\ result.locations[3].id = "clinic_1"
    /\ result.locations[2].id = "research_2"


\* the displacement d turned by pi/4 about the origin (cos = sin = 0.70711)
EighthTurn(d) ==
    <<RDiv((d[1] - d[2]) * 70711, 100000), RDiv((d[1] + d[2]) * 70711, 100000)>>

\* the center of the k-th valid sector's zone
ZoneCenter(k) == generate_radial_positions(Len(ValidSequence), BASE_RADIUS)[k]

\* where the location of the j-th (0-based) template of the k-th valid sector
\* stands, relative to the center of its zone
Displacement(k, j) ==
    LET loc == result.locations[Before(k) + j + 1]
    IN  <<loc.position.x - ZoneCenter(k)[1], loc.position.z - ZoneCenter(k)[2]>>

(* C22: every returned location has y = 0; the building of a one-template  *)
(* sector stands exactly on its zone center; in a sector of m > 1          *)
(* templates the building of ordinal j stands at distance 3 from the       *)
(* center (within 1e-2) at angle j*pi/4: the first one at center + (3, 0), *)
(* each next one where the one before it comes by an eighth of a turn, and *)
(* none on the center itself.                                              *)
C22_Placement ==
    Returns =>
        /\ \A i \in 1..Len(result.locations) : result.locations[i].position.y = 0
        /\ \A k \in 1..Len(ValidSequence) :
              LET m == Len(TemplatesOf(k))
              IN  IF m = 1
                  THEN Displacement(k, 0) = <<0, 0>>
                  ELSE /\ Displacement(k, 0) = <<3 * MILLI, 0>>
                       /\ \A j \in 0..(m - 1) :
                             LET d == Displacement(k, j)
                             IN  /\ d # <<0, 0>>
                                 /\ Near(Sqrt(d[1] * d[1] + d[2] * d[2]), 3 * MILLI)
                                 /\ j > 0 =>
                                       /\ Near(d[1], EighthTurn(Displacement(k, j - 1))[1])
                                       /\ Near(d[2], EighthTurn(Displacement(k, j - 1))[2])

\* the one-template clinic placed second, off the origin, next to a
\* two-template sector
C22_Witness ==
    /\ Returns
    /\ model_type = CORPORATE
    /\ sectors = <<"research", "clinic">>
    /\ result.locations[3].zone = "clinic"
    /\ result.locations[3].position.x # 0
    /\ result.locations[2].position.z > result.locations[1].position.z


-----------------------------------------------------------------------------
(* Requests that name no valid sector twice.                               *)

NoValidSectorTwice ==
    \A i, j \in ValidEntries : i # j => sectors[i] # sectors[j]

(* C23: when the request names no valid sector more than once (unknown     *)
(* names may repeat), the returned location ids are pairwise distinct, the *)
(* returned road ids are pairwise distinct and no road has from_location   *)
(* equal to to_location.                                                   *)
C23_DistinctIds ==
    (Returns /\ NoValidSectorTwice) =>
        /\ \A i, j \in 1..Len(result.locations) :
              i # j => result.locations[i].id # result.locations[j].id
        /\ \A k, l \in 1..Len(result.roads) :
              k # l => result.roads[k].id # result.roads[l].id
        /\ \A k \in 1..Len(result.roads) :
              result.roads[k].from_location # result.roads[k].to_location

\* three different valid sectors: six locations, two main and three
\* secondary roads
C23_Witness ==
    /\ Returns
    /\ NoValidSectorTwice
    /\ Cardinality(ValidEntries) = 3
    /\ Len(result.locations) = 6
    /\ Len(result.roads) = 5


\* the ids reached from the ids of S by following roads from from_location
\* to to_location, any number of times
RECURSIVE ReachableFrom(_)
ReachableFrom(S) ==
    LET step == S \cup {result.roads[k].to_location :
                          k \in {l \in 1..Len(result.roads) :
                                    result.roads[l].from_location \in S}}
    IN  IF step = S THEN S ELSE ReachableFrom(step)

(* C24: when the request names no valid sector more than once, the         *)
(* returned roads form a spanning tree over the returned locations rooted  *)
(* at the hub (the first location): there is one road fewer than there are *)
(* locations, and every location is reached from the hub by following      *)
(* roads from from_location to to_location.                                *)
C24_SpanningTree ==
    (Returns /\ NoValidSectorTwice) =>
        /\ Len(result.roads) = Len(result.locations) - 1
        /\ ReachableFrom({result.locations[1].id}) = LocationIds

\* a tree of depth two: the second location of a zone other than the hub's
\* is reached through that zone's main road and then its secondary road
C24_Witness ==
    /\ Returns
    /\ NoValidSectorTwice
    /\ Cardinality(Zones) = 3
    /\ \E k, l \in 1..Len(result.roads) :
          /\ result.roads[k].type = "main"
          /\ result.roads[l].type = "secondary"
          /\ result.roads[k].to_location = result.roads[l].from_location


-----------------------------------------------------------------------------
(* C25: in the generate endpoint a project is inserted only after the      *)
(* layout generation has returned: a request answered with an error (400,  *)
(* 422 or 500) leaves the stored projects as they were, and a request      *)
(* answered 201 adds exactly one project, under the id it answers with,    *)
(* owned by the requesting user and embedding exactly the locations and    *)
(* roads that generate_project_layout returns for the requested model type *)
(* and sectors; the projects stored before are kept as they were.          *)
C25_InsertAfterGeneration ==
    [][response'.op = "generate" =>
          IF response'.status = 201
          THEN \E layout \in {generate_project_layout(response'.data.model_type,
                                                      response'.data.sectors)} :
                  /\ layout.outcome = "return"
                  /\ response'.raised = ""
                  /\ response'.id \notin DOMAIN projects
                  /\ DOMAIN projects' = DOMAIN projects \cup {response'.id}
                  /\ \A p \in DOMAIN projects : projects'[p] = projects[p]
                  /\ projects'[response'.id].user_id = response'.user
                  /\ projects'[response'.id].locations = layout.locations
                  /\ projects'[response'.id].roads = layout.roads
          ELSE /\ response'.status \in {400, 422, 500}
               /\ projects' = projects
      ]_vars

\* a second project was stored by the other user, with roads, after a request
\* of the first user had been answered; the first project is still stored
C25_Witness ==
    /\ Answered("generate")
    /\ response.status = 201
    /\ response.id = 2
    /\ DOMAIN projects = {1, 2}
    /\ projects[1].user_id # projects[2].user_id
    /\ projects[2].user_id = response.user
    /\ Len(projects[2].roads) > 0

====
